---- MODULE Spec2Model ----
(***************************************************************************)
(* gpu_checker.py: the monitor loop (sinfo -> ssh nvidia-smi -> scontrol   *)
(* drain -> e-mail) as a state machine.                                    *)
(*                                                                         *)
(* Python strings are sequences of one-character strings, so that split,   *)
(* replace, lower and int are computed character by character.            *)
(* Python's True / False / None are the strings "True" / "False" / "None". *)
(***************************************************************************)
EXTENDS Integers, Sequences, FiniteSets, TLC

VARIABLES pc, configFile, CONFIG, do_send_email, nodes, i, gpu_works, log, error,
          wrote_template, probed

vars == <<pc, configFile, CONFIG, do_send_email, nodes, i, gpu_works, log, error,
          wrote_template, probed>>

\* ------------------------------------------------------------------ bounds
\* longest sinfo stdout fed to find_slurm_nodes on its own
MaxOut == 4
\* longest ssh stdout fed to check_gpu on its own
MaxStdout == 3
\* longest sinfo stdout / ssh stdout inside the monitor loop
MaxLoopOut == 3
MaxLoopStdout == 1
\* longest value an operator put into a configuration file
MaxValue == 3

\* ------------------------------------------------------- Python values
True == "True"
False == "False"
None == "None"
Unbound == "unbound"

NL == "\n"

Exc(type, line) == [type |-> type, line |-> line]
NoExc == Exc("none", 0)

Strings(alphabet, n) == UNION {[1..k -> alphabet] : k \in 0..n}

Min(S) == CHOOSE x \in S : \A y \in S : x <= y
Max(S) == CHOOSE x \in S : \A y \in S : x >= y

\* ------------------------------------------------------ str primitives
UpperCase == <<"A","B","C","D","E","F","G","H","I","J","K","L","M",
               "N","O","P","Q","R","S","T","U","V","W","X","Y","Z">>
LowerCase == <<"a","b","c","d","e","f","g","h","i","j","k","l","m",
               "n","o","p","q","r","s","t","u","v","w","x","y","z">>

\* str.lower()
lower(string) ==
    [k \in 1..Len(string) |->
        IF \E u \in 1..26 : UpperCase[u] = string[k]
        THEN LowerCase[CHOOSE u \in 1..26 : UpperCase[u] = string[k]]
        ELSE string[k]]

\* str.split(sep) for a one-character separator: never drops empty pieces
RECURSIVE split(_, _)
split(string, sep) ==
    LET at == {k \in 1..Len(string) : string[k] = sep}
    IN  IF at = {} THEN <<string>>
        ELSE <<SubSeq(string, 1, Min(at) - 1)>>
             \o split(SubSeq(string, Min(at) + 1, Len(string)), sep)

\* str.replace(old, '') for a one-character old
replace(string, old) == SelectSeq(string, LAMBDA c : c # old)

\* str.strip() as int() applies it before parsing
Whitespace == {" ", NL, "\t"}
strip(string) ==
    LET keep == {k \in 1..Len(string) : string[k] \notin Whitespace}
    IN  IF keep = {} THEN <<>> ELSE SubSeq(string, Min(keep), Max(keep))

Digits == <<"0","1","2","3","4","5","6","7","8","9">>
IsDigit(c) == \E d \in 1..10 : Digits[d] = c
DigitVal(c) == (CHOOSE d \in 1..10 : Digits[d] = c) - 1

RECURSIVE Decimal(_)
Decimal(ds) ==
    IF ds = <<>> THEN 0
    ELSE 10 * Decimal(SubSeq(ds, 1, Len(ds) - 1)) + DigitVal(ds[Len(ds)])

\* int(string): surrounding whitespace stripped, optional sign, digits.
\* ok = FALSE stands for ValueError.
int(string) ==
    LET t == strip(string)
        signed == t # <<>> /\ t[1] \in {"-", "+"}
        body == IF signed THEN Tail(t) ELSE t
        ok == body # <<>> /\ \A k \in 1..Len(body) : IsDigit(body[k])
    IN  [ok |-> ok,
         val |-> IF ~ok THEN 0
                 ELSE IF signed /\ t[1] = "-" THEN 0 - Decimal(body)
                 ELSE Decimal(body)]

\* --------------------------------------------------------- str_to_bool
TruthyWords == {<<"t","r","u","e">>, <<"1">>, <<"t">>, <<"y">>, <<"y","e","s">>}
FalsyWords == {<<"f","a","l","s","e">>, <<"0">>, <<"f">>, <<"n">>, <<"n","o">>}

str_to_bool(string) ==
    IF lower(string) \in TruthyWords THEN True
    ELSE IF lower(string) \in FalsyWords THEN False
    ELSE None

\* Python truth value of a str_to_bool result (`if x:`)
Truthy(v) == v = True

\* ------------------------------------------------------- purge_element
\* a purge that purges nothing
purge_element_keeps(_list, elem_to_purge) == _list

purge_element(_list, elem_to_purge) ==
    SelectSeq(_list, LAMBDA elem : elem # elem_to_purge)

\* the two-line idiom shared by find_slurm_nodes and check_gpu
OutputLines(shell_output) ==
    purge_element([k \in 1..Len(split(shell_output, NL)) |->
                        replace(split(shell_output, NL)[k], NL)],
                  <<>>)

\* --------------------------------------------------------------- events
\* what the program did since the last discovery / sleep, in order
SinfoEvent(exit_code, shell_output) ==
    [op |-> "sinfo", exit_code |-> exit_code, shell_output |-> shell_output]
SshEvent(node, exit_code, shell_output) ==
    [op |-> "ssh", node |-> node, exit_code |-> exit_code,
     shell_output |-> shell_output]
ScontrolEvent(node, exit_code) ==
    [op |-> "scontrol", node |-> node, exit_code |-> exit_code]
SleepEvent == [op |-> "sleep"]
PrintEvent(text) == [op |-> "print", text |-> text]

\* ---------------------------------------------------- find_slurm_nodes
\* line.split(' ')[0]
FirstField(line) == split(line, " ")[1]

\* ShellRunner.success
CommandSuccess(exit_code) == exit_code = 0

\* lines 107-109
ParseNodes(shell_output) ==
    [k \in 1..Len(OutputLines(shell_output)) |->
        FirstField(OutputLines(shell_output)[k])]

\* lines 110-111: an empty result is reported on standard output
NoNodesFound(found) ==
    IF Len(found) = 0 THEN <<PrintEvent("no nodes found!")>> ELSE <<>>

\* a discovery that goes on with whatever a failed command printed
find_slurm_nodes_no_raise(exit_code, shell_output) ==
    [raised |-> NoExc, value |-> ParseNodes(shell_output)]

find_slurm_nodes(exit_code, shell_output) ==
    IF ~CommandSuccess(exit_code)
    THEN [raised |-> Exc("Exception", 105), value |-> <<>>]
    ELSE [raised |-> NoExc, value |-> ParseNodes(shell_output)]

\* ----------------------------------------------------------- send_email
RelayOutcomes == {"ok", "reject_connection", "reject_login", "reject_send"}

Subject(prefix, node, suffix) == [prefix |-> prefix, node |-> node, suffix |-> suffix]

\* a session that is closed on the way out of a failed login or send
smtp_session_closing(relay) ==
    LET connect == IF Truthy(str_to_bool(CONFIG.is_ssl)) THEN "SMTP_SSL"
                   ELSE "SMTP"
    IN  IF relay = "reject_connection"
        THEN [relay |-> relay, smtp |-> <<>>,
              raised |-> Exc("SMTPException", 205)]
        ELSE IF relay = "reject_login"
        THEN [relay |-> relay, smtp |-> <<connect, "quit">>,
              raised |-> Exc("SMTPException", 206)]
        ELSE IF relay = "reject_send"
        THEN [relay |-> relay, smtp |-> <<connect, "login", "quit">>,
              raised |-> Exc("SMTPException", 207)]
        ELSE [relay |-> relay,
              smtp |-> <<connect, "login", "send_message", "quit">>,
              raised |-> NoExc]

\* lines 196-208.  smtp: the smtplib calls that completed, in order;
\* raised: the exception that ended the session, NoExc when quit was reached
smtp_session(relay) ==
    LET port == int(CONFIG.port)
        is_ssl == str_to_bool(CONFIG.is_ssl)
        connect == IF Truthy(is_ssl) THEN "SMTP_SSL" ELSE "SMTP"
    IN  IF ~port.ok
        THEN [relay |-> "unreached", smtp |-> <<>>,
              raised |-> Exc("ValueError", 197)]
        ELSE IF relay = "reject_connection"
        THEN [relay |-> relay, smtp |-> <<>>,
              raised |-> Exc("SMTPException",
                             IF Truthy(is_ssl) THEN 203 ELSE 205)]
        ELSE IF relay = "reject_login"
        THEN [relay |-> relay, smtp |-> <<connect>>,
              raised |-> Exc("SMTPException", 206)]
        ELSE IF relay = "reject_send"
        THEN [relay |-> relay, smtp |-> <<connect, "login">>,
              raised |-> Exc("SMTPException", 207)]
        ELSE [relay |-> relay,
              smtp |-> <<connect, "login", "send_message", "quit">>,
              raised |-> NoExc]

\* a notifier that logs a failed session and returns
send_email_swallowing(subject, relay) ==
    [op |-> "send_email", subject |-> subject,
     relay |-> smtp_session(relay).relay,
     smtp |-> smtp_session(relay).smtp,
     raised |-> NoExc]

\* the send_email call as an event: raised is the exception that left it
send_email(subject, relay) ==
    [op |-> "send_email", subject |-> subject,
     relay |-> smtp_session(relay).relay,
     smtp |-> smtp_session(relay).smtp,
     raised |-> smtp_session(relay).raised]

\* ----------------------------------------------------------- drain_node
DrainedPrefix == "gpu-checker has drained node "
ActionRequiredPrefix == "ACTION REQUIRED: gpu-checker wanted to drain node "
ActionRequiredSuffix == ", but failed"

\* a drain that always reports success
drain_subject_always_drained(node, success) == Subject(DrainedPrefix, node, "")

drain_subject(node, success) ==
    IF success THEN Subject(DrainedPrefix, node, "")
    ELSE Subject(ActionRequiredPrefix, node, ActionRequiredSuffix)

\* a drain that raises on a rejected command, as find_slurm_nodes does
drain_node_raising(node, send, exit_code, relay) ==
    IF ~CommandSuccess(exit_code)
    THEN [raised |-> Exc("Exception", 120),
          events |-> <<ScontrolEvent(node, exit_code)>>]
    ELSE IF Truthy(send)
    THEN [raised |-> send_email(drain_subject(node, TRUE), relay).raised,
          events |-> <<ScontrolEvent(node, exit_code),
                       send_email(drain_subject(node, TRUE), relay)>>]
    ELSE [raised |-> NoExc, events |-> <<ScontrolEvent(node, exit_code)>>]

\* a drain that reports whether or not notification is on
drain_node_always_mails(node, send, exit_code, relay) ==
    [raised |-> send_email(drain_subject(node, CommandSuccess(exit_code)),
                           relay).raised,
     events |-> <<ScontrolEvent(node, exit_code),
                  send_email(drain_subject(node, CommandSuccess(exit_code)),
                             relay)>>]

\* events: what the call did; raised: the exception that left it
drain_node(node, send, exit_code, relay) ==
    LET success == CommandSuccess(exit_code)
        ran == <<ScontrolEvent(node, exit_code)>>
        mail == send_email(drain_subject(node, success), relay)
    IN  IF Truthy(send)
        THEN [raised |-> mail.raised, events |-> ran \o <<mail>>]
        ELSE [raised |-> NoExc, events |-> ran]

\* ------------------------------------------------------------ check_gpu
ErrorPrefix == "gpu-checker has detected an error on node "

\* lines 153-157: success, or the exception the parsing raises
probe_success(exit_code, shell_output) ==
    LET shell_output_lines == OutputLines(shell_output)
        ssh_exit_code == shell_output_lines[Len(shell_output_lines)]
    IN  IF shell_output_lines = <<>>
        THEN [raised |-> Exc("IndexError", 155), value |-> Unbound]
        ELSE IF ~CommandSuccess(exit_code)
        THEN [raised |-> NoExc, value |-> False]
        ELSE IF ~int(ssh_exit_code).ok
        THEN [raised |-> Exc("ValueError", 157), value |-> Unbound]
        ELSE [raised |-> NoExc,
              value |-> IF int(ssh_exit_code).val = 0 THEN True ELSE False]

\* a probe that reports its verdict to the caller only
check_gpu_silent(node, send, exit_code, shell_output, relay) ==
    [raised |-> probe_success(exit_code, shell_output).raised,
     value |-> probe_success(exit_code, shell_output).value,
     events |-> <<SshEvent(node, exit_code, shell_output)>>]

check_gpu(node, send, exit_code, shell_output, relay) ==
    LET ran == <<SshEvent(node, exit_code, shell_output)>>
        success == probe_success(exit_code, shell_output)
        mail == send_email(Subject(ErrorPrefix, node, ""), relay)
    IN  IF success.raised # NoExc
        THEN [raised |-> success.raised, value |-> Unbound, events |-> ran]
        ELSE IF success.value = False /\ Truthy(send)
        THEN [raised |-> mail.raised,
              value |-> IF mail.raised = NoExc THEN False ELSE Unbound,
              events |-> ran \o <<mail>>]
        ELSE [raised |-> NoExc, value |-> success.value, events |-> ran]

\* ------------------------------------------------------- configuration
\* the keys of the configuration file that decide control flow
\* os.path.isfile(CONFIG_FILE_PATH) is false: no content to speak of
NoFile == [exists |-> FALSE, content |-> <<>>]
OnFile(content) == [exists |-> TRUE, content |-> content]

DefaultConfig ==
    [enabled |-> <<"F","a","l","s","e">>,
     is_ssl |-> <<"F","a","l","s","e">>,
     port |-> <<>>]

BoolStrs == {<<"T","r","u","e">>, <<"F","a","l","s","e">>, <<"m","a","y","b","e">>}
PortStrs == {<<"2","5">>, <<>>}
ConfigFiles == [enabled : BoolStrs, is_ssl : BoolStrs, port : PortStrs]
\* the files the monitor loop is started on: the port is a number
LoopConfigFiles == {c \in ConfigFiles : int(c.port).ok}

\* ---------------------------------------------------- the environment
DiscAlphabet == {"a", "b", " ", "\t", NL}
LoopDiscAlphabet == {"a", "b", NL}
ProbeAlphabet == {"0", "1", "x", " ", "-", NL}
LoopProbeAlphabet == {"0", "1", "x", NL}
SinfoExitCodes == {0, 1}
SshExitCodes == {0, 255}
ScontrolExitCodes == {0, 1}

\* ------------------------------------------------------------- __main__
Init ==
    /\ pc = "start"
    /\ configFile \in {NoFile} \cup {OnFile(c) : c \in LoopConfigFiles}
    /\ CONFIG = None
    /\ do_send_email = Unbound
    /\ nodes = <<>>
    /\ i = 0
    /\ gpu_works = Unbound
    /\ log = <<>>
    /\ error = NoExc
    /\ wrote_template = FALSE
    /\ probed = <<>>

\* lines 213-244
Startup ==
    /\ pc = "start"
    /\ CONFIG' = IF configFile.exists THEN configFile.content ELSE DefaultConfig
    /\ configFile' = OnFile(CONFIG')
    /\ wrote_template' = ~configFile.exists
    /\ do_send_email' = str_to_bool(CONFIG'.enabled)
    /\ pc' = "find_slurm_nodes"
    /\ UNCHANGED <<nodes, i, gpu_works, log, error, probed>>

\* a loop that pauses when it found nothing to probe
AfterDiscovery_sleeps(value) == IF value = <<>> THEN "sleep" ELSE "check_gpu"

\* lines 245-246: an empty list ends the for statement at once and the
\* while statement evaluates find_slurm_nodes again
AfterDiscovery(value) == IF value = <<>> THEN "find_slurm_nodes" ELSE "check_gpu"

\* line 246: the for statement evaluates find_slurm_nodes once per cycle.
\* probed: the nodes check_gpu was called on since the last discovery
FindSlurmNodesOn(outputs) ==
    /\ pc = "find_slurm_nodes"
    /\ \E exit_code \in SinfoExitCodes, shell_output \in outputs :
         LET r == find_slurm_nodes(exit_code, shell_output)
         IN  /\ log' = <<SinfoEvent(exit_code, shell_output)>>
                       \o (IF r.raised # NoExc THEN <<>>
                           ELSE NoNodesFound(r.value))
             /\ IF r.raised # NoExc
                THEN /\ pc' = "crashed"
                     /\ error' = r.raised
                     /\ UNCHANGED <<nodes, i, probed>>
                ELSE /\ nodes' = r.value
                     /\ i' = IF r.value = <<>> THEN 0 ELSE 1
                     /\ probed' = <<>>
                     /\ pc' = AfterDiscovery(r.value)
                     /\ UNCHANGED error
    /\ UNCHANGED <<configFile, CONFIG, do_send_email, gpu_works, wrote_template>>

\* the mail relay answers only when notification is on
RelaysFor(send) == IF Truthy(send) THEN RelayOutcomes ELSE {"ok"}

\* a loop that drains whatever the probe said
NeedsDrain_always(works) == TRUE

\* line 248: if not gpu_works
NeedsDrain(works) == ~Truthy(works)

\* a loop that goes straight on after a healthy node
AfterCheck_skips_sleep(works) ==
    IF NeedsDrain(works) THEN "drain_node" ELSE "check_gpu"

\* lines 248-252: the drain is conditional, the sleep is not
AfterCheck(works) == IF NeedsDrain(works) THEN "drain_node" ELSE "sleep"

\* line 247
CheckGpuOn(outputs) ==
    /\ pc = "check_gpu"
    /\ \E exit_code \in SshExitCodes, shell_output \in outputs,
          relay \in RelaysFor(do_send_email) :
         LET r == check_gpu(nodes[i], do_send_email, exit_code, shell_output, relay)
         IN  /\ log' = r.events
             /\ probed' = Append(probed, nodes[i])
             /\ IF r.raised # NoExc
                THEN /\ pc' = "crashed"
                     /\ error' = r.raised
                     /\ UNCHANGED gpu_works
                ELSE /\ gpu_works' = r.value
                     /\ pc' = AfterCheck(r.value)
                     /\ UNCHANGED error
    /\ UNCHANGED <<configFile, CONFIG, do_send_email, nodes, i, wrote_template>>

\* lines 68-72 under line 148: subprocess.run is given no timeout and the
\* ssh command no ConnectTimeout or ServerAlive option, so the call returns
\* only when the ssh process exits; on a host that accepts the session and
\* never answers, it does not
SshNeverReturns ==
    /\ pc = "check_gpu"
    /\ pc' = "ssh_blocked"
    /\ UNCHANGED <<configFile, CONFIG, do_send_email, nodes, i, gpu_works, log,
                   error, wrote_template, probed>>

\* line 249
DrainNode ==
    /\ pc = "drain_node"
    /\ \E exit_code \in ScontrolExitCodes, relay \in RelaysFor(do_send_email) :
         LET r == drain_node(nodes[i], do_send_email, exit_code, relay)
         IN  /\ log' = log \o r.events
             /\ IF r.raised # NoExc
                THEN /\ pc' = "crashed"
                     /\ error' = r.raised
                ELSE /\ pc' = "sleep"
                     /\ UNCHANGED error
    /\ UNCHANGED <<configFile, CONFIG, do_send_email, nodes, i, gpu_works,
                   wrote_template, probed>>

\* a loop that queries the scheduler again after every node
ForNext_rediscovers(k, n) == [pc |-> "find_slurm_nodes", i |-> k]

\* line 246: the for statement takes the next element of the list it was
\* given, or ends and lets the while statement start the next cycle
ForNext(k, n) ==
    IF k < n THEN [pc |-> "check_gpu", i |-> k + 1]
    ELSE [pc |-> "find_slurm_nodes", i |-> k]

\* line 252, then the next node of the for loop or the next while round
Sleep ==
    /\ pc = "sleep"
    /\ log' = <<SleepEvent>>
    /\ i' = ForNext(i, Len(nodes)).i
    /\ pc' = ForNext(i, Len(nodes)).pc
    /\ UNCHANGED <<configFile, CONFIG, do_send_email, nodes, gpu_works, error,
                   wrote_template, probed>>

FindSlurmNodes == FindSlurmNodesOn(Strings(LoopDiscAlphabet, MaxLoopOut))
CheckGpu == CheckGpuOn(Strings(LoopProbeAlphabet, MaxLoopStdout))

Next ==
    Startup \/ FindSlurmNodes \/ CheckGpu \/ SshNeverReturns \/ DrainNode \/ Sleep

Spec == Init /\ [][Next]_vars

\* ------------------------------------- find_slurm_nodes on any output
\* the monitor right after startup on configuration c
Started(c) ==
    /\ pc = "find_slurm_nodes"
    /\ configFile = OnFile(c)
    /\ CONFIG = c
    /\ do_send_email = str_to_bool(c.enabled)
    /\ nodes = <<>>
    /\ i = 0
    /\ gpu_works = Unbound
    /\ log = <<>>
    /\ error = NoExc
    /\ wrote_template = (c = DefaultConfig)
    /\ probed = <<>>

InitDiscovery == \E c \in LoopConfigFiles \cup {DefaultConfig} : Started(c)

FindSlurmNodesAny == FindSlurmNodesOn(Strings(DiscAlphabet, MaxOut))

NextDiscovery == FindSlurmNodesAny

SpecDiscovery == InitDiscovery /\ [][NextDiscovery]_vars

\* ------------------------------------------- check_gpu on any output
\* the monitor about to probe the only node of a cycle
InitProbe ==
    /\ pc = "check_gpu"
    /\ \E c \in ConfigFiles \cup {DefaultConfig} :
         /\ configFile = OnFile(c)
         /\ CONFIG = c
         /\ do_send_email = str_to_bool(c.enabled)
    /\ nodes = << <<"a">> >>
    /\ i = 1
    /\ gpu_works = Unbound
    /\ log = <<SinfoEvent(0, <<"a">>)>>
    /\ error = NoExc
    /\ wrote_template = FALSE
    /\ probed = <<>>

CheckGpuAny == CheckGpuOn(Strings(ProbeAlphabet, MaxStdout))

NextProbe == CheckGpuAny

SpecProbe == InitProbe /\ [][NextProbe]_vars

\* ===================================================================
\* Properties
\* ===================================================================
\* The vocabulary of the properties, defined on the raw output and not
\* through the program's own split / purge / parse.

\* the lines of a text: the pieces between consecutive newlines
LinesOf(text) ==
    LET cuts == {0} \cup {k \in 1..Len(text) : text[k] = NL} \cup {Len(text) + 1}
        cut(j) == CHOOSE c \in cuts : Cardinality({d \in cuts : d < c}) = j
    IN  [j \in 1..(Cardinality(cuts) - 1) |->
            SubSeq(text, cut(j - 1) + 1, cut(j) - 1)]

NonBlank(line) == \E k \in 1..Len(line) : line[k] \notin Whitespace
NonBlankLines(text) == SelectSeq(LinesOf(text), NonBlank)

NonEmpty(line) == Len(line) > 0
NonEmptyLines(text) == SelectSeq(LinesOf(text), NonEmpty)

\* first whitespace-delimited token of a non-blank line
FirstToken(line) ==
    LET start == Min({k \in 1..Len(line) : line[k] \notin Whitespace})
        stops == {k \in start..Len(line) : line[k] \in Whitespace}
    IN  SubSeq(line, start, IF stops = {} THEN Len(line) ELSE Min(stops) - 1)

\* the part of a line before its first space character
BeforeFirstSpace(line) ==
    LET spaces == {k \in 1..Len(line) : line[k] = " "}
    IN  SubSeq(line, 1, IF spaces = {} THEN Len(line) ELSE Min(spaces) - 1)

ParsesAsZero(line) == int(line).ok /\ int(line).val = 0

\* the probe result e is healthy: outer status zero and the last non-blank
\* line of stdout is the integer zero
Healthy(e) ==
    /\ e.exit_code = 0
    /\ NonBlankLines(e.shell_output) # <<>>
    /\ ParsesAsZero(NonBlankLines(e.shell_output)
                        [Len(NonBlankLines(e.shell_output))])

\* the current loop iteration has run its probe
Probed == log # <<>> /\ log[1].op = "ssh"
\* the last discovery
Discovered == log # <<>> /\ log[1].op = "sinfo"

Mails == {k \in 1..Len(log) : log[k].op = "send_email"}
Drains == {k \in 1..Len(log) : log[k].op = "scontrol"}
ErrorMails == {k \in Mails : log[k].subject.prefix = ErrorPrefix}
FailedMails == {k \in Mails : log[k].raised # NoExc}

\* C1: whenever check_gpu has run and no notification failed, it has
\* returned, and returned healthy exactly when the outer exit status is zero
\* and the last non-blank line of stdout parses as the integer zero.
C1_HealthyIff ==
    (Probed /\ FailedMails = {}) =>
        /\ pc \in {"drain_node", "sleep"}
        /\ gpu_works = IF Healthy(log[1]) THEN True ELSE False

\* C2: no exception raised while parsing the probe output (lines 153-157)
\* ends the monitor: the loop is never stopped by check_gpu's IndexError
\* or ValueError.
C2_ProbeNeverCrashes ==
    ~(Probed /\ pc = "crashed" /\ error.line \in {155, 157})

\* C3: when a loop iteration is over (the monitor is about to sleep, or has
\* stopped), a node whose probe was unhealthy has been given a drain command
\* in that iteration.
C3_UnhealthyIsDrained ==
    (Probed /\ pc \in {"sleep", "crashed"} /\ ~Healthy(log[1])) =>
        \E k \in Drains : log[k].node = log[1].node

\* C4: a drain command is only ever issued for the node just probed, after
\* check_gpu returned unhealthy for it, with nothing but that probe's own
\* notification in between, and that node is the current element of the
\* list the cycle's discovery returned; at most one drain per iteration.
C4_DrainOnlyAfterUnhealthy ==
    \A k \in Drains :
        /\ Probed
        /\ gpu_works = False
        /\ probe_success(log[1].exit_code, log[1].shell_output).value = False
        /\ log[k].node = log[1].node
        /\ \A m \in 2..(k - 1) : m \in ErrorMails
        /\ i \in 1..Len(nodes)
        /\ log[k].node = nodes[i]
        /\ Cardinality(Drains) = 1

C4_Witness ==
    /\ Drains # {}
    /\ Len(nodes) = 2
    /\ i = 2

\* C5: with notification enabled, a drain command is followed by exactly
\* one send_email call, the last event of the iteration, whose subject
\* names the node and is the ACTION REQUIRED subject iff the command's exit
\* status is non-zero and the "has drained node" subject iff it is zero.
C5_OneMatchingNotification ==
    Truthy(do_send_email) =>
        \A k \in Drains :
            /\ Len(log) = k + 1
            /\ log[k + 1].op = "send_email"
            /\ log[k + 1].subject.node = log[k].node
            /\ (log[k + 1].subject.prefix = ActionRequiredPrefix
                    <=> log[k].exit_code # 0)
            /\ (log[k + 1].subject.prefix = DrainedPrefix
                    <=> log[k].exit_code = 0)

C5_Witness ==
    /\ Truthy(do_send_email)
    /\ \E k \in Drains :
         /\ log[k].exit_code # 0
         /\ log[k + 1].subject.prefix = ActionRequiredPrefix
         /\ log[k + 1].raised = NoExc

\* C6: with notification enabled, once check_gpu has run there is a
\* probe-failure notification for the probed node exactly when the probe
\* was unhealthy, and none when it was healthy.
C6_NotifiedIffUnhealthy ==
    (Probed /\ Truthy(do_send_email)) =>
        IF Healthy(log[1])
        THEN ErrorMails = {}
        ELSE /\ Cardinality(ErrorMails) = 1
             /\ \A k \in ErrorMails : log[k].subject.node = log[1].node

\* C7 as stated: after a successful discovery the node list has one entry
\* per non-blank line of the output, in order, each the first
\* whitespace-delimited token of its line.
C7_FirstTokenOfNonBlankLines ==
    (Discovered /\ log[1].exit_code = 0) =>
        nodes = [k \in 1..Len(NonBlankLines(log[1].shell_output)) |->
                    FirstToken(NonBlankLines(log[1].shell_output)[k])]

\* a line as sinfo prints it: it starts with the node name and its fields
\* are separated by spaces
WellFormed(line) ==
    /\ line # <<>>
    /\ line[1] \notin Whitespace
    /\ \A k \in 1..Len(line) : line[k] # "\t"

\* C7 amended: after a successful discovery the node list has one entry per
\* non-empty line of the output, in order, each the part of its line before
\* the first space character; for a line that starts with its name and
\* separates fields by spaces this is its first whitespace-delimited token.
C7_BeforeFirstSpaceOfNonEmptyLines ==
    (Discovered /\ log[1].exit_code = 0) =>
        LET lines == NonEmptyLines(log[1].shell_output)
        IN  /\ Len(nodes) = Len(lines)
            /\ \A k \in 1..Len(lines) :
                 /\ nodes[k] = BeforeFirstSpace(lines[k])
                 /\ WellFormed(lines[k]) => nodes[k] = FirstToken(lines[k])

\* two nodes found in an output with an empty line between their lines
C7_Witness ==
    /\ Discovered
    /\ log[1].exit_code = 0
    /\ Len(nodes) = 2
    /\ nodes[1] # nodes[2]
    /\ \E k \in 2..(Len(LinesOf(log[1].shell_output)) - 1) :
         LinesOf(log[1].shell_output)[k] = <<>>

\* C8: a discovery command with non-zero exit status stops the monitor with
\* the exception of line 105: nothing is probed, drained or mailed after
\* it, the node list is not replaced, and a stopped monitor takes no step.
C8_FailedDiscoveryIsFatal ==
    /\ []((Discovered /\ log[1].exit_code # 0) =>
            /\ pc = "crashed"
            /\ error = Exc("Exception", 105)
            /\ Len(log) = 1)
    /\ [][/\ pc # "crashed"
          /\ (log' # <<>> /\ log'[1].op = "sinfo" /\ log'[1].exit_code # 0)
                => nodes' = nodes]_vars

C8_Witness ==
    /\ Discovered
    /\ log[1].exit_code # 0
    /\ nodes # <<>>

\* C9 as stated: whenever a drain command exited non-zero, an ACTION
\* REQUIRED notification has been sent for it and the monitor has not
\* stopped.
C9_RejectedDrainReportedAndSurvived ==
    \A k \in Drains :
        log[k].exit_code # 0 =>
            /\ \E m \in Mails :
                 /\ m > k
                 /\ log[m].subject.prefix = ActionRequiredPrefix
            /\ pc # "crashed"

\* C9 amended: a rejected drain raises nothing of its own.  With
\* notification enabled drain_node calls send_email once, with the ACTION
\* REQUIRED subject for the node; with notification disabled nothing is
\* sent.  Unless that send_email call raised (then the monitor stops with
\* its exception) the monitor is about to sleep, and from the sleep it goes
\* to the next node or to the next discovery.
C9_RejectedDrainNotFatalByItself ==
    /\ [](\A k \in Drains :
            log[k].exit_code # 0 =>
                /\ IF Truthy(do_send_email)
                   THEN /\ Len(log) = k + 1
                        /\ log[k + 1].op = "send_email"
                        /\ log[k + 1].subject
                             = Subject(ActionRequiredPrefix, log[k].node,
                                       ActionRequiredSuffix)
                   ELSE Len(log) = k
                /\ IF FailedMails # {}
                   THEN /\ pc = "crashed"
                        /\ error = log[Len(log)].raised
                   ELSE pc = "sleep")
    /\ [][pc = "sleep" =>
            /\ pc' \in {"check_gpu", "find_slurm_nodes"}
            /\ log' = <<SleepEvent>>]_vars

C9_Witness ==
    /\ pc = "sleep"
    /\ Truthy(do_send_email)
    /\ \E k \in Drains : log[k].exit_code # 0

\* C10: a send_email call the relay rejected (connection, login or send)
\* has raised, it is the last thing the monitor did, and the monitor has
\* stopped with that exception; a stopped monitor takes no further step.
C10_NotificationFailureIsFatal ==
    /\ [](\A k \in Mails :
            log[k].relay \in RelayOutcomes \ {"ok"} =>
                /\ log[k].raised.type = "SMTPException"
                /\ k = Len(log)
                /\ pc = "crashed"
                /\ error = log[k].raised)
    /\ [][pc # "crashed"]_vars

C10_Witness ==
    /\ pc = "crashed"
    /\ \E k \in Mails : log[k].relay = "reject_login"
    /\ Len(nodes) = 2
    /\ i = 1

\* C11: the probe's return is followed by the sleep, directly for a healthy
\* node and after the drain for an unhealthy one; the sleep is followed by
\* the next probe or the next discovery; a probe of a later node starts
\* with exactly one sleep behind it, the first probe of a cycle starts
\* right after the discovery, and a discovery starts right after startup,
\* after the sleep of the last node, or after an empty discovery.
C11_OneSleepPerProbedNode ==
    [][/\ (pc = "check_gpu" /\ pc' \notin {"crashed", "ssh_blocked"}) =>
            pc' = IF gpu_works' = True THEN "sleep" ELSE "drain_node"
       /\ (pc = "drain_node" /\ pc' # "crashed") => pc' = "sleep"
       /\ pc = "sleep" =>
            /\ log' = <<SleepEvent>>
            /\ pc' = IF i < Len(nodes) THEN "check_gpu" ELSE "find_slurm_nodes"
       /\ pc = "check_gpu" =>
            IF i = 1 THEN Len(log) = 1 /\ log[1].op = "sinfo"
            ELSE log = <<SleepEvent>>
       /\ pc = "find_slurm_nodes" =>
            \/ log = <<>>
            \/ log = <<SleepEvent>> /\ i = Len(nodes)
            \/ Discovered /\ nodes = <<>>]_vars

\* the second node of a cycle is about to be probed, one sleep after a
\* healthy first node
C11_Witness ==
    /\ pc = "check_gpu"
    /\ i = 2
    /\ gpu_works = True
    /\ log = <<SleepEvent>>

\* C12: a run that started without a configuration file and wrote the
\* template never issues a discovery query, a probe or a drain command.
C12_TemplateRunDoesNotMonitor ==
    wrote_template =>
        \A k \in 1..Len(log) : log[k].op \notin {"sinfo", "ssh", "scontrol"}

\* a boolean-like string outside the accepted words, whatever its case
Unrecognized(string) == lower(string) \notin (TruthyWords \cup FalsyWords)

\* C13: with an unrecognized `enabled` string the loop does nothing (the
\* value is not taken for true nor for false), and with an unrecognized
\* `is_ssl` string no send_email call picks a transport: it raises before
\* any smtplib call.
C13_UnrecognizedBooleanIsAnError ==
    pc # "start" =>
        /\ Unrecognized(CONFIG.enabled) => log = <<>>
        /\ Unrecognized(CONFIG.is_ssl) =>
             \A k \in Mails : log[k].smtp = <<>> /\ log[k].raised # NoExc

\* C14: in a run whose configuration says enabled = false, send_email has
\* not been called in any state: no notification follows a healthy or an
\* unhealthy probe, an accepted or a rejected drain, and no smtplib call
\* has been made.
C14_DisabledSendsNothing ==
    do_send_email = False => Mails = {}

\* notification off, an unhealthy probe and a rejected drain behind
C14_Witness ==
    /\ do_send_email = False
    /\ pc = "sleep"
    /\ Probed
    /\ \E k \in Drains : log[k].exit_code # 0

\* ===================================================================
\* The configuration file, key by key (lines 213-240)
\* ===================================================================
\* A configuration is the sequence of its sections, a section the sequence
\* of its items, in the order ConfigParser keeps them.

\* ''.join / '\n'.join
RECURSIVE join(_, _)
join(pieces, sep) ==
    IF pieces = <<>> THEN <<>>
    ELSE IF Len(pieces) = 1 THEN pieces[1]
    ELSE pieces[1] \o sep \o join(Tail(pieces), sep)

\* str.rstrip()
rstrip(string) ==
    LET keep == {k \in 1..Len(string) : string[k] \notin Whitespace}
    IN  IF keep = {} THEN <<>> ELSE SubSeq(string, 1, Max(keep))

\* lines 218-238: the dictionaries assigned to CONFIG[...]; ConfigParser
\* stores each key through optionxform (str.lower)
FullDefault == <<
    \* [nodes] states_to_check, partitions_to_check
     [name |-> <<"n","o","d","e","s">>,
      items |-> <<
          [key |-> <<"s","t","a","t","e","s","_","t","o","_","c","h","e","c","k">>,
           value |-> <<"m","i","x","e","d",",","i","d","l","e">>],
          [key |-> <<"p","a","r","t","i","t","i","o","n","s","_","t","o","_","c","h","e","c","k">>,
           value |-> <<"g","p","u">>]>>],
    \* [ssh] user, keyfile
     [name |-> <<"s","s","h">>,
      items |-> <<
          [key |-> <<"u","s","e","r">>,
           value |-> <<>>],
          [key |-> <<"k","e","y","f","i","l","e">>,
           value |-> <<>>]>>],
    \* [email] enabled, to, from, signature
     [name |-> <<"e","m","a","i","l">>,
      items |-> <<
          [key |-> <<"e","n","a","b","l","e","d">>,
           value |-> <<"F","a","l","s","e">>],
          [key |-> <<"t","o">>,
           value |-> <<>>],
          [key |-> <<"f","r","o","m">>,
           value |-> <<>>],
          [key |-> <<"s","i","g","n","a","t","u","r","e">>,
           value |-> <<>>]>>],
    \* [smtp_auth] hostname, port, user, password, is_ssl
     [name |-> <<"s","m","t","p","_","a","u","t","h">>,
      items |-> <<
          [key |-> <<"h","o","s","t","n","a","m","e">>,
           value |-> <<>>],
          [key |-> <<"p","o","r","t">>,
           value |-> <<>>],
          [key |-> <<"u","s","e","r">>,
           value |-> <<>>],
          [key |-> <<"p","a","s","s","w","o","r","d">>,
           value |-> <<>>],
          [key |-> <<"i","s","_","s","s","l">>,
           value |-> <<"F","a","l","s","e">>]>>]>>

\* RawConfigParser._write_section: str(value).replace('\n', '\n\t')
WriteValue(value) ==
    join([k \in 1..Len(value) |->
            IF value[k] = NL THEN <<NL, "\t">> ELSE <<value[k]>>], <<>>)

WriteSection(section) ==
    <<"[">> \o section.name \o <<"]", NL>>
    \o join([k \in 1..Len(section.items) |->
                section.items[k].key \o <<" ", "=", " ">>
                \o WriteValue(section.items[k].value) \o <<NL>>], <<>>)
    \o <<NL>>

\* line 240: CONFIG.write(config_file)
ConfigWrite(config) ==
    join([k \in 1..Len(config) |-> WriteSection(config[k])], <<>>)

\* the lines a text file yields when iterated: no line after a final newline
FileLines(text) ==
    LET pieces == split(text, NL)
    IN  IF pieces[Len(pieces)] = <<>> THEN SubSeq(pieces, 1, Len(pieces) - 1)
        ELSE pieces

\* a multi-line value that keeps its trailing empty lines
JoinValue_keeps_tail(vals) == join(vals, <<NL>>)

\* RawConfigParser._join_multiline_values: '\n'.join(val).rstrip()
JoinValue(vals) == rstrip(join(vals, <<NL>>))

\* the parser while it reads: sections with the value lines of each option,
\* optname (0 for None) the index of the current option in the last
\* section, indent_level, and the exception raised so far
ReaderStart ==
    [sections |-> <<>>, optname |-> 0, indent_level |-> 0, raised |-> NoExc]

AppendValueLine(st, value) ==
    LET s == Len(st.sections)
        o == st.optname
    IN  [st EXCEPT !.sections[s].items[o].vals = Append(@, value)]

\* RawConfigParser._read, one line
ReadLine(st, line) ==
    LET stripped == strip(line)
        is_comment == stripped # <<>> /\ stripped[1] \in {"#", ";"}
        value == IF is_comment THEN <<>> ELSE stripped
        nonspace == {k \in 1..Len(line) : line[k] \notin Whitespace}
        cur_indent_level == IF nonspace = {} THEN 0 ELSE Min(nonspace) - 1
        in_option == st.sections # <<>> /\ st.optname # 0
        closing == {k \in 3..Len(value) : value[k] = "]"}
        is_header == value # <<>> /\ value[1] = "[" /\ closing # {}
        sectname == SubSeq(value, 2, Max(closing) - 1)
        delims == {k \in 1..Len(value) : value[k] \in {"=", ":"}}
        optname == lower(rstrip(SubSeq(value, 1, Min(delims) - 1)))
        optval == strip(SubSeq(value, Min(delims) + 1, Len(value)))
        s == Len(st.sections)
    IN  IF st.raised # NoExc THEN st
        ELSE IF value = <<>>
        THEN IF ~is_comment /\ in_option THEN AppendValueLine(st, <<>>) ELSE st
        ELSE IF in_option /\ cur_indent_level > st.indent_level
        THEN AppendValueLine(st, value)
        ELSE IF is_header
        THEN IF \E k \in 1..s : st.sections[k].name = sectname
             THEN [st EXCEPT !.raised = Exc("DuplicateSectionError", 215)]
             ELSE [st EXCEPT !.sections = Append(@, [name |-> sectname,
                                                     items |-> <<>>]),
                             !.optname = 0,
                             !.indent_level = cur_indent_level]
        ELSE IF st.sections = <<>>
        THEN [st EXCEPT !.raised = Exc("MissingSectionHeaderError", 215)]
        ELSE IF delims = {} \/ optname = <<>>
        THEN [st EXCEPT !.raised = Exc("ParsingError", 215)]
        ELSE IF \E k \in 1..Len(st.sections[s].items) :
                    st.sections[s].items[k].key = optname
        THEN [st EXCEPT !.raised = Exc("DuplicateOptionError", 215)]
        ELSE [st EXCEPT !.sections[s].items =
                            Append(@, [key |-> optname, vals |-> <<optval>>]),
                        !.optname = Len(st.sections[s].items) + 1,
                        !.indent_level = cur_indent_level]

RECURSIVE ReadLines(_, _)
ReadLines(st, lines) ==
    IF lines = <<>> THEN st
    ELSE ReadLines(ReadLine(st, lines[1]), Tail(lines))

\* line 215: CONFIG.read(CONFIG_FILE_PATH)
ConfigRead(text) ==
    LET st == ReadLines(ReaderStart, FileLines(text))
    IN  [raised |-> st.raised,
         value |-> [s \in 1..Len(st.sections) |->
            [name |-> st.sections[s].name,
             items |-> [k \in 1..Len(st.sections[s].items) |->
                [key |-> st.sections[s].items[k].key,
                 value |-> JoinValue(st.sections[s].items[k].vals)]]]]]

\* CONFIG[section][key]
Get(config, section, key) ==
    LET s == CHOOSE s \in 1..Len(config) : config[s].name = section
        k == CHOOSE k \in 1..Len(config[s].items) : config[s].items[k].key = key
    IN  config[s].items[k].value

\* the files an operator made of the template by filling in [ssh] user
ValueAlphabet == {"a", " ", "=", NL}
WithUser(user) == [FullDefault EXCEPT ![2].items[1].value = user]
OperatorFiles ==
    {ConfigWrite(WithUser(user)) : user \in Strings(ValueAlphabet, MaxValue)}

InitConfig ==
    /\ pc = "start"
    /\ configFile \in {NoFile} \cup {OnFile(text) : text \in OperatorFiles}
    /\ CONFIG = None
    /\ do_send_email = Unbound
    /\ nodes = <<>>
    /\ i = 0
    /\ gpu_works = Unbound
    /\ log = <<>>
    /\ error = NoExc
    /\ wrote_template = FALSE
    /\ probed = <<>>

\* lines 213-244 with every key of the file; wrote_template: the file at
\* CONFIG_FILE_PATH is the template this program wrote
StartupFull ==
    /\ pc = "start"
    /\ IF configFile.exists
       THEN LET r == ConfigRead(configFile.content)
            IN  /\ log' = <<[op |-> "CONFIG.read"]>>
                /\ IF r.raised # NoExc
                   THEN /\ pc' = "crashed"
                        /\ error' = r.raised
                        /\ UNCHANGED <<CONFIG, do_send_email>>
                   ELSE /\ CONFIG' = r.value
                        /\ do_send_email' =
                             str_to_bool(Get(r.value, <<"e","m","a","i","l">>, <<"e","n","a","b","l","e","d">>))
                        /\ pc' = "find_slurm_nodes"
                        /\ UNCHANGED error
                /\ UNCHANGED <<configFile, wrote_template>>
       ELSE /\ CONFIG' = FullDefault
            /\ configFile' = OnFile(ConfigWrite(FullDefault))
            /\ wrote_template' = TRUE
            /\ log' = <<[op |-> "CONFIG.write"]>>
            /\ do_send_email' =
                 str_to_bool(Get(FullDefault, <<"e","m","a","i","l">>, <<"e","n","a","b","l","e","d">>))
            /\ pc' = "find_slurm_nodes"
            /\ UNCHANGED error
    /\ UNCHANGED <<nodes, i, gpu_works, probed>>

\* the program is stopped and started again on the same file
Restart ==
    /\ pc = "find_slurm_nodes"
    /\ pc' = "start"
    /\ CONFIG' = None
    /\ do_send_email' = Unbound
    /\ log' = <<>>
    /\ UNCHANGED <<configFile, nodes, i, gpu_works, error, wrote_template, probed>>

NextConfig == StartupFull \/ Restart

SpecConfig == InitConfig /\ [][NextConfig]_vars

\* C15: when the program has read back the template it wrote, the
\* configuration it holds has the sections and keys of the defaults, in
\* their order, and every key of every section has its default value.
C15_DefaultsRoundTrip ==
    (pc = "find_slurm_nodes" /\ wrote_template /\ log = <<[op |-> "CONFIG.read"]>>) =>
        /\ Len(CONFIG) = Len(FullDefault)
        /\ \A s \in 1..Len(FullDefault) :
             /\ CONFIG[s].name = FullDefault[s].name
             /\ Len(CONFIG[s].items) = Len(FullDefault[s].items)
             /\ \A k \in 1..Len(FullDefault[s].items) :
                  /\ CONFIG[s].items[k].key = FullDefault[s].items[k].key
                  /\ CONFIG[s].items[k].value = FullDefault[s].items[k].value

C15_Witness ==
    /\ pc = "find_slurm_nodes"
    /\ wrote_template
    /\ log = <<[op |-> "CONFIG.read"]>>
    /\ Get(CONFIG, <<"n","o","d","e","s">>, <<"p","a","r","t","i","t","i","o","n","s","_","t","o","_","c","h","e","c","k">>) = <<"g","p","u">>

\* an operator's value that does not survive the file
OperatorValueLost ==
    /\ pc = "find_slurm_nodes"
    /\ ~wrote_template
    /\ configFile.content = ConfigWrite(WithUser(<<"a", NL>>))
    /\ Get(CONFIG, <<"s","s","h">>, <<"u","s","e","r">>) = <<"a">>

\* check_gpu computed success = False for the node of this iteration
FoundUnhealthy ==
    /\ Probed
    /\ probe_success(log[1].exit_code, log[1].shell_output).value = False

\* the iteration has nothing more to do: the sleep is next, or the monitor
\* has stopped
IterationOver == pc \in {"sleep", "crashed"}

FullSession ==
    <<IF str_to_bool(CONFIG.is_ssl) = True THEN "SMTP_SSL" ELSE "SMTP",
      "login", "send_message", "quit">>

\* C17 as stated: every send_email call that opened a connection has closed
\* it by the time the call ended, whether it returned or raised.
C17_ClosedOnEveryExitPath ==
    \A k \in Mails :
        log[k].smtp # <<>> => log[k].smtp[Len(log[k].smtp)] = "quit"

\* C17 amended: every send_email call makes its smtplib calls in the order
\* connect (SMTP_SSL when is_ssl reads as true, SMTP otherwise), login,
\* send_message, quit, each at most once, on a connection of its own.  The
\* session is closed exactly when the call returns; a call whose login or
\* send is rejected raises at that call having made the earlier ones and
\* not quit, and the monitor stops.
C17_OneSessionClosedOnReturn ==
    \A k \in Mails :
        /\ Len(log[k].smtp) <= 4
        /\ log[k].smtp = SubSeq(FullSession, 1, Len(log[k].smtp))
        /\ (log[k].raised = NoExc <=> log[k].smtp = FullSession)
        /\ (log[k].raised = NoExc <=> log[k].relay = "ok")
        /\ log[k].relay = "reject_connection" => log[k].smtp = <<>>
        /\ log[k].relay = "reject_login" =>
              log[k].smtp = SubSeq(FullSession, 1, 1) /\ log[k].raised.line = 206
        /\ log[k].relay = "reject_send" =>
              log[k].smtp = SubSeq(FullSession, 1, 2) /\ log[k].raised.line = 207
        /\ log[k].raised # NoExc => pc = "crashed" /\ k = Len(log)

\* an encrypted session whose send was rejected after a complete one
C17_Witness ==
    /\ Cardinality(Mails) = 2
    /\ str_to_bool(CONFIG.is_ssl) = True
    /\ \E k \in Mails : log[k].smtp = FullSession
    /\ \E k \in Mails : log[k].relay = "reject_send"

\* C18: the probe step always completes: the monitor is never left waiting
\* for ever on the ssh command of a host that does not answer.
C18_ProbeAlwaysCompletes == pc # "ssh_blocked"

\* the probe of the current node has not returned yet
ProbePending == pc \in {"check_gpu", "ssh_blocked"}

\* C19: the nodes probed since the last discovery are the first entries of
\* the list that discovery returned, one probe per entry and in the list's
\* order, up to the current entry; the list changes only in a discovery
\* step; a probe step probes the one next entry; and a discovery query is
\* issued only when every entry of the list has been probed, drained or
\* not.
C19_SnapshotPerCycle ==
    /\ [](pc # "start" =>
            /\ Len(probed) = IF ProbePending THEN i - 1 ELSE i
            /\ Len(probed) <= Len(nodes)
            /\ probed = SubSeq(nodes, 1, Len(probed))
            /\ pc = "find_slurm_nodes" => probed = nodes)
    /\ [][/\ nodes' # nodes => pc = "find_slurm_nodes"
          /\ probed' # probed =>
                \/ pc = "check_gpu" /\ probed' = Append(probed, nodes[i])
                \/ pc = "find_slurm_nodes" /\ probed' = <<>>
          /\ (log' # <<>> /\ log'[1].op = "sinfo" /\ log' # log) =>
                pc = "find_slurm_nodes" /\ probed = nodes]_vars

\* a cycle of two different nodes is over, the first of them drained or not
C19_Witness ==
    /\ pc = "find_slurm_nodes"
    /\ Len(nodes) = 2
    /\ nodes[1] # nodes[2]
    /\ probed = nodes
    /\ log = <<SleepEvent>>

\* C20: a discovery that succeeds with no node prints "no nodes found!" and
\* leaves the monitor at the next discovery query, and the step taken from
\* there is that query; the sleep is only ever reached with the probe of a
\* node behind it in the same iteration.
C20_EmptyCycleHasNoSleep ==
    /\ []((Discovered /\ log[1].exit_code = 0 /\ nodes = <<>>) =>
            /\ pc = "find_slurm_nodes"
            /\ log = <<log[1], PrintEvent("no nodes found!")>>)
    /\ []((Discovered /\ nodes # <<>>) =>
            \A k \in 1..Len(log) : log[k].op # "print")
    /\ [](pc = "sleep" => Probed /\ probed # <<>>)
    /\ [][/\ (Discovered /\ nodes = <<>> /\ pc # "crashed") =>
                log'[1].op = "sinfo"
          /\ (log' = <<SleepEvent>> /\ log' # log) =>
                pc = "sleep" /\ Probed]_vars

\* an empty discovery right after the sleep of a cycle's last node
C20_Witness ==
    /\ Discovered
    /\ log[1].exit_code = 0
    /\ nodes = <<>>
    /\ pc = "find_slurm_nodes"
    /\ Len(log) = 2

====
